---- MODULE Spec2Model ----
(***************************************************************************)
(* A model of koinos-p2p's per-peer PeerHandler                            *)
(* (internal/protocol/peer_handler.go) and of the ConnectionManager        *)
(* (internal/p2p/connection_manager.go).                                   *)
(*                                                                         *)
(* Spec       : peerHandlerLoop with its topology polls and the window     *)
(*              relay heightRangeUpdateLoop.                               *)
(* SpecDL     : peerHandlerLoop with its topology polls and the download   *)
(*              goroutines of requestDownload.                             *)
(* FairSpecDL : SpecDL with the fairness the Go scheduler gives.           *)
(* SpecPH     : the whole handler: polls, window relay and downloads.      *)
(* SpecCM     : the ConnectionManager's Start, managerLoop, reconnects and *)
(*              the overlay's Connected / Disconnected notifications.      *)
(* FairSpecCM : SpecCM with the fairness the Go scheduler gives.           *)
(* SpecDM     : the DownloadManager's scheduler behind the BdmiProvider,   *)
(*              with the handlers and handleDisconnected on the other side *)
(*              of its channels.                                           *)
(* SpecIP     : Start and connectInitialPeers for any set of initial peers.*)
(* SpecSM     : the SyncManager draining the ready-FIFO into LocalChain.   *)
(* SpecGT     : the gossip options and the GossipToggle.                   *)
(***************************************************************************)
EXTENDS Naturals, Integers, Sequences, FiniteSets, Bags, TLC

(***************************************************************************)
(* Bounds of the model.                                                    *)
(***************************************************************************)
\* windows the BdmiProvider sends on heightRangeChan (numbered 1..MaxWindows)
MaxWindows == 2
\* topology polls (peerHandlerCycle calls) of one run
MaxPolls == 2
\* BlockDownloadRequests sent on downloadRequestChan (numbered 1..MaxRequests)
MaxRequests == 2
\* capacity of the inbound channels heightRangeChan and downloadRequestChan
ChanCap == 1
\* connections the overlay opens in one run
MaxOpens == 2
\* failed attempts of one retry loop that are counted (the count saturates)
MaxAttempts == 7
\* peers the GossipToggle's fraction is taken over
MaxGossipPeers == 3
\* block ids of the inventory: block b has height b and previous b - 1
MaxBlocks == 2
\* BlockDownloadRequests the scheduler issues in one run
MaxIssued == 2
\* PeerHasBlock messages the handlers send in one run
MaxAdverts == 4
\* peers that disconnect in one run
MaxDisconnects == 1
\* blocks the DownloadManager hands to the SyncManager (numbered 1..MaxReady)
MaxReady == 4

(***************************************************************************)
(* Values.                                                                 *)
(***************************************************************************)
\* peer ids; the handler under study is the one of peerID
Peers == {"p1", "p2"}
peerID == "p1"
\* the lists GetTopologyAtHeight may answer with (resp.BlockTopology)
TopologyResponses == {<<>>, <<1, 2>>}
ReqIds == 1..MaxRequests
\* the outcomes of the GetBlocksByID call: an RPC error or timeout, an empty
\* BlockItems list, a list whose first item is empty, a list with block bytes
DownloadOutcomes == {"err", "zero", "emptyitem", "block"}

\* the BlockDownloadRequests the BdmiProvider may send (Topology, PeerID)
RequestKinds == {[Topology |-> 1, PeerID |-> "p1"], [Topology |-> 2, PeerID |-> "p2"]}

\* the peers named by the initialPeers argument of NewConnectionManager
InitialPeerIDs == {"p1"}
\* const maxSleepBackoff
maxSleepBackoff == 30
\* const enableThresholdDefault = 0.66, disableThresholdDefault = 0.33, in percent
enableThresholdDefault == 66
disableThresholdDefault == 33
\* min_toggle_interval, in clock ticks
MinToggleTicks == 2
\* the scheduler's parameters, scaled down from the defaults 8, 128 and 3
max_concurrent_downloads_per_peer == 2
max_concurrent_downloads_total == 2
max_download_attempts == 2
\* capacities of the fan-in channels and of a handler's request channel,
\* scaled down from 1024 and 128; the request channel is bounded 1
PeerHasBlockCap == 1
DownloadResponseCap == 1
DownloadRequestCap == 1

NoReq == [id |-> 0, Topology |-> 0, PeerID |-> "none"]
NoResp == [id |-> 0, Topology |-> 0, PeerID |-> "none", Err |-> "none", Block |-> "none"]

VARIABLES
  \* ----- PeerHandler -----
  ctxDone,             \* the handler's context is cancelled
  heightRangeChan,     \* h.heightRangeChan: windows sent, not yet received
  nSent,               \* number of windows sent so far (the last window's number)
  value, hasValue,     \* heightRangeUpdateLoop's locals
  urlPc,               \* heightRangeUpdateLoop: "run" | "done"
  heightRange,         \* h.heightRange (0: the zero value)
  phlPc,               \* peerHandlerLoop: "select" | "rpc" | "emit" | "sendErr" | "done"
  nextPollTime,        \* the time.After channel: "armed" | "spent"
  toEmit,              \* peerHandlerCycle: the topologies still to send
  nPolls,              \* polls started
  downloadRequestChan, \* h.downloadRequestChan: requests sent, not yet received
  nReq,                \* number of requests sent so far
  wpc,                 \* per request: its worker goroutine, "none" | "rpc" | "send" | "done"
  wreq,                \* per request: the request the worker was started with
  wresp,               \* per request: the response the worker built
  \* ----- what the handler's consumers have received -----
  emitted,             \* PeerHasBlock messages received from peerHasBlockChan
  errs,                \* PeerError messages received from errChan
  respCount,           \* per request: responses received from downloadResponseChan
  \* ----- history -----
  expected,            \* concatenation of the answers of the successful polls
  noPollSince,         \* windows sent with no poll started or running since
  superseded,          \* windows followed by a later send with no poll between
  delivered,           \* windows delivered on internalHeightRangeChan, in order,
                       \* each with the last window received at that time
  nPollErr,            \* polls whose RPC failed
  wout,                \* per request: how its GetBlocksByID call ended
  \* ----- ConnectionManager -----
  initialPeers,        \* c.initialPeers: the peers of the configuration
  rootDone,            \* the context given to Start is cancelled
  startPc,             \* Start's goroutine: "peers" | "blocked" | "done"
  startPeers,          \* peers of host.Network().Peers() it has still to announce
  mgrPc,               \* managerLoop: "idle" | "select" | "signal" | "done"
  dpid,                \* handleDisconnected's pid while it is in its select
  connectedPeers,      \* c.connectedPeers: peer -> its PeerConnection (0: no entry)
  pcs,                 \* the PeerConnections created so far: peer, cancel called
  netConns,            \* the overlay: open connections per peer
  nOpened,             \* the overlay: connections opened so far
  pendConn,            \* per peer: Connected calls blocked on peerConnectedChan
  pendDisc,            \* per peer: Disconnected calls blocked on peerDisconnectedChan
  reconn,              \* the reconnect goroutines: a bag of
                       \* [peer, sleepTimeSeconds, pc, attempts]
  cipPc,               \* connectInitialPeers: "idle" | "round" | "sleep" | "done"
  cipTodo,             \* peers the running round has still to dial
  peersToConnect, newlyConnectedPeers, sleepTimeSeconds,  \* its locals
  cipAttempts,         \* the sleeps connectInitialPeers has started (counted up to MaxAttempts)
  \* ----- history -----
  signalled,           \* peer ids received from signalPeerDisconnectChan
  processed,           \* peer ids of the Disconnected events handled
  dinst,               \* the PeerConnection handleDisconnected found (0: none)
  \* ----- GossipToggle -----
  gt,                  \* [opts, enabled, ahead, total, sinceToggle]
  \* ----- BdmiProvider and DownloadManager -----
  dm,                  \* the handlers' side, the channels and the scheduler's state
  \* ----- SyncManager -----
  sm                   \* the ready-FIFO, the pending-by-parent map, local_head and the applies

phVars == <<ctxDone, heightRangeChan, nSent, value, hasValue, urlPc, heightRange,
            phlPc, nextPollTime, toEmit, nPolls, downloadRequestChan, nReq,
            wpc, wreq, wresp, emitted, errs, respCount, expected,
            noPollSince, superseded, delivered, nPollErr, wout>>

cmVars == <<initialPeers, rootDone, startPc, startPeers, mgrPc, dpid, connectedPeers, pcs,
            netConns, nOpened, pendConn, pendDisc, reconn, cipPc, cipTodo,
            peersToConnect, newlyConnectedPeers, sleepTimeSeconds, cipAttempts, signalled,
            processed, dinst>>

coreVars == <<gt, dm, sm>>

vars == <<phVars, cmVars, coreVars>>

urlVars == <<value, hasValue, urlPc, delivered>>
workerVars == <<wpc, wreq, wresp, respCount, wout>>
windowHist == <<noPollSince, superseded>>
pollVars == <<phlPc, nextPollTime, toEmit, nPolls, emitted, errs, expected,
              nPollErr>>

InitPH ==
  /\ ctxDone = FALSE
  /\ heightRangeChan = <<>>
  /\ nSent = 0
  /\ value = 0
  /\ hasValue = FALSE
  /\ urlPc = "run"
  /\ heightRange = 0
  /\ phlPc = "select"
  /\ nextPollTime = "armed"
  /\ toEmit = <<>>
  /\ nPolls = 0
  /\ downloadRequestChan = <<>>
  /\ nReq = 0
  /\ wpc = [i \in ReqIds |-> "none"]
  /\ wreq = [i \in ReqIds |-> NoReq]
  /\ wresp = [i \in ReqIds |-> NoResp]
  /\ emitted = <<>>
  /\ errs = <<>>
  /\ respCount = [i \in ReqIds |-> 0]
  /\ expected = <<>>
  /\ noPollSince = {}
  /\ superseded = {}
  /\ delivered = <<>>
  /\ nPollErr = 0
  /\ wout = [i \in ReqIds |-> "none"]

(***************************************************************************)
(* The environment of the handler.                                         *)
(***************************************************************************)
\* The context passed to the handler's goroutines is cancelled.
Cancel ==
  /\ ~ctxDone
  /\ ctxDone' = TRUE
  /\ UNCHANGED <<cmVars, coreVars, heightRangeChan, nSent, urlVars, heightRange, pollVars,
                 downloadRequestChan, nReq, workerVars, windowHist>>

\* BdmiProvider sends the next window on h.heightRangeChan.
SendWindow ==
  /\ nSent < MaxWindows
  /\ Len(heightRangeChan) < ChanCap
  /\ nSent' = nSent + 1
  /\ heightRangeChan' = Append(heightRangeChan, nSent + 1)
  /\ superseded' = superseded \cup (IF phlPc = "select" THEN noPollSince ELSE {})
  /\ noPollSince' = IF phlPc = "select" THEN noPollSince \cup {nSent + 1} ELSE {}
  /\ UNCHANGED <<cmVars, coreVars, ctxDone, urlVars, heightRange, pollVars, downloadRequestChan,
                 nReq, workerVars>>

\* BdmiProvider sends a BlockDownloadRequest on h.downloadRequestChan.
SendRequest(r) ==
  /\ nReq < MaxRequests
  /\ Len(downloadRequestChan) < ChanCap
  /\ nReq' = nReq + 1
  /\ downloadRequestChan' =
       Append(downloadRequestChan,
              [id |-> nReq + 1, Topology |-> r.Topology, PeerID |-> r.PeerID])
  /\ UNCHANGED <<cmVars, coreVars, ctxDone, heightRangeChan, nSent, urlVars, heightRange, pollVars,
                 workerVars, windowHist>>

\* the last window heightRangeUpdateLoop has received (0: none yet)
LastReceived == nSent - Len(heightRangeChan)

(***************************************************************************)
(* heightRangeUpdateLoop                                                   *)
(***************************************************************************)
\* the select heightRangeUpdateLoop is in, with hasValue = hv, has the case
\* "value = <-h.heightRangeChan": both selects have it
URLRecvReady_emptyOnly(hv) == ~hv
URLRecvReady(hv) == TRUE

\* case value = <-h.heightRangeChan, in either select
URLRecv ==
  /\ urlPc = "run"
  /\ URLRecvReady(hasValue)
  /\ heightRangeChan /= <<>>
  /\ value' = Head(heightRangeChan)
  /\ hasValue' = TRUE
  /\ heightRangeChan' = Tail(heightRangeChan)
  /\ UNCHANGED <<cmVars, coreVars, ctxDone, nSent, urlPc, delivered, heightRange, pollVars,
                 downloadRequestChan, nReq, workerVars, windowHist>>

\* case <-ctx.Done(), in either select
URLExit ==
  /\ urlPc = "run"
  /\ ctxDone
  /\ urlPc' = "done"
  /\ UNCHANGED <<cmVars, coreVars, ctxDone, heightRangeChan, nSent, value, hasValue,
                 delivered, heightRange, pollVars, downloadRequestChan, nReq,
                 workerVars, windowHist>>

(***************************************************************************)
(* peerHandlerLoop and peerHandlerCycle                                    *)
(***************************************************************************)
\* case <-nextPollTime: the timer has fired and the select takes it;
\* doPeerCycle() enters peerHandlerCycle, which issues GetTopologyAtHeight
\* with the current h.heightRange.
PHLPoll ==
  /\ phlPc = "select"
  /\ nextPollTime = "armed"
  /\ nPolls < MaxPolls
  /\ phlPc' = "rpc"
  /\ nextPollTime' = "spent"
  /\ nPolls' = nPolls + 1
  /\ noPollSince' = {}
  /\ UNCHANGED <<cmVars, coreVars, ctxDone, heightRangeChan, nSent, urlVars, heightRange, toEmit,
                 emitted, errs, expected, nPollErr, downloadRequestChan, nReq,
                 workerVars, superseded>>

\* where doPeerCycle goes when peerHandlerCycle returns an error: the select
\* that sends the PeerError
AfterPollError_dropsError == "select"
AfterPollError == "sendErr"

\* the time.After channel once doPeerCycle has returned
Rearm_forgets == "spent"
Rearm == "armed"

\* h.client.CallContext(... "GetTopologyAtHeight" ...) returns an error
\* (an RPC error, the RPCTimeoutMs deadline, or the cancelled context).
PollFail ==
  /\ phlPc = "rpc"
  /\ phlPc' = AfterPollError
  /\ nextPollTime' = IF AfterPollError = "select" THEN Rearm ELSE nextPollTime
  /\ nPollErr' = nPollErr + 1
  /\ UNCHANGED <<cmVars, coreVars, ctxDone, heightRangeChan, nSent, urlVars, heightRange, toEmit,
                 nPolls, emitted, errs, expected, downloadRequestChan,
                 nReq, workerVars, windowHist>>

\* the order in which peerHandlerCycle walks resp.BlockTopology
EmitOrder_reversed(resp) == [k \in 1..Len(resp) |-> resp[Len(resp) + 1 - k]]
EmitOrder(resp) == resp

\* CallContext returns a topology list; with an empty list the cycle is over.
PollOk(resp) ==
  /\ phlPc = "rpc"
  /\ expected' = expected \o resp
  /\ toEmit' = EmitOrder(resp)
  /\ \/ /\ resp = <<>>
        /\ phlPc' = "select"
        /\ nextPollTime' = Rearm
     \/ /\ resp /= <<>>
        /\ phlPc' = "emit"
        /\ nextPollTime' = nextPollTime
  /\ UNCHANGED <<cmVars, coreVars, ctxDone, heightRangeChan, nSent, urlVars, heightRange, nPolls,
                 emitted, errs, nPollErr, downloadRequestChan, nReq,
                 workerVars, windowHist>>

\* the peer id a PeerHasBlock or a PeerError of this handler carries
MsgPeerID == peerID

\* case h.peerHasBlockChan <- hasBlockMsg; after the last one the cycle returns
\* nil and the loop re-arms the timer.
PHLEmit ==
  /\ phlPc = "emit"
  /\ toEmit /= <<>>
  /\ emitted' = Append(emitted, [PeerID |-> MsgPeerID, Topology |-> Head(toEmit)])
  /\ toEmit' = Tail(toEmit)
  /\ \/ /\ Tail(toEmit) = <<>>
        /\ phlPc' = "select"
        /\ nextPollTime' = Rearm
     \/ /\ Tail(toEmit) /= <<>>
        /\ phlPc' = phlPc
        /\ nextPollTime' = nextPollTime
  /\ UNCHANGED <<cmVars, coreVars, ctxDone, heightRangeChan, nSent, urlVars, heightRange, nPolls,
                 errs, expected, nPollErr, downloadRequestChan, nReq,
                 workerVars, windowHist>>

\* the "case <-ctx.Done()" of the select around the PeerHasBlock send is ready
EmitDoneCase_missing == FALSE
EmitDoneCase == ctxDone

\* case <-ctx.Done(): return nil, in the loop over resp.BlockTopology
PHLEmitCancel ==
  /\ phlPc = "emit"
  /\ EmitDoneCase
  /\ toEmit' = <<>>
  /\ phlPc' = "select"
  /\ nextPollTime' = Rearm
  /\ UNCHANGED <<cmVars, coreVars, ctxDone, heightRangeChan, nSent, urlVars, heightRange, nPolls,
                 emitted, errs, expected, nPollErr,
                 downloadRequestChan, nReq, workerVars, windowHist>>

\* case h.errChan <- PeerError{h.peerID, err}, in doPeerCycle
PHLSendErr ==
  /\ phlPc = "sendErr"
  /\ errs' = Append(errs, [PeerID |-> MsgPeerID])
  /\ phlPc' = "select"
  /\ nextPollTime' = Rearm
  /\ UNCHANGED <<cmVars, coreVars, ctxDone, heightRangeChan, nSent, urlVars, heightRange, toEmit,
                 nPolls, emitted, expected, nPollErr,
                 downloadRequestChan, nReq, workerVars, windowHist>>

\* case <-ctx.Done(), in doPeerCycle
PHLSendErrCancel ==
  /\ phlPc = "sendErr"
  /\ ctxDone
  /\ phlPc' = "select"
  /\ nextPollTime' = Rearm
  /\ UNCHANGED <<cmVars, coreVars, ctxDone, heightRangeChan, nSent, urlVars, heightRange, toEmit,
                 nPolls, emitted, errs, expected, nPollErr,
                 downloadRequestChan, nReq, workerVars, windowHist>>

\* hasValue after heightRangeUpdateLoop has sent value on internalHeightRangeChan
HasValueAfterDeliver_keeps == TRUE
HasValueAfterDeliver == FALSE

\* internalHeightRangeChan: heightRangeUpdateLoop's
\* "case h.internalHeightRangeChan <- value" meets peerHandlerLoop's
\* "case h.heightRange = <-h.internalHeightRangeChan".
PHLRecvWindow ==
  /\ phlPc = "select"
  /\ urlPc = "run"
  /\ hasValue
  /\ heightRange' = value
  /\ hasValue' = HasValueAfterDeliver
  /\ delivered' = Append(delivered, [w |-> value, latest |-> LastReceived])
  /\ UNCHANGED <<cmVars, coreVars, ctxDone, heightRangeChan, nSent, value, urlPc, pollVars,
                 downloadRequestChan, nReq, workerVars, windowHist>>

\* case req := <-h.downloadRequestChan: h.requestDownload(ctx, req) starts a
\* goroutine that calls GetBlocksByID.
PHLRecvRequest ==
  /\ phlPc = "select"
  /\ downloadRequestChan /= <<>>
  /\ LET req == Head(downloadRequestChan) IN
       /\ wpc' = [wpc EXCEPT ![req.id] = "rpc"]
       /\ wreq' = [wreq EXCEPT ![req.id] = req]
  /\ downloadRequestChan' = Tail(downloadRequestChan)
  /\ UNCHANGED <<cmVars, coreVars, ctxDone, heightRangeChan, nSent, urlVars, heightRange, pollVars,
                 nReq, wresp, respCount, wout, windowHist>>

\* case <-ctx.Done(): return, in peerHandlerLoop
PHLExit ==
  /\ phlPc = "select"
  /\ ctxDone
  /\ phlPc' = "done"
  /\ UNCHANGED <<cmVars, coreVars, ctxDone, heightRangeChan, nSent, urlVars, heightRange,
                 nextPollTime, toEmit, nPolls, emitted, errs, expected,
                 nPollErr, downloadRequestChan, nReq, workerVars,
                 windowHist>>

(***************************************************************************)
(* requestDownload's goroutine                                             *)
(***************************************************************************)
\* the response built from the request and the outcome of GetBlocksByID
NewBlockDownloadResponse_reqPeer(req, o) ==
  [id |-> req.id, Topology |-> req.Topology, PeerID |-> req.PeerID,
   Err |-> CASE o = "err" -> "rpc" [] o = "zero" -> "zero" [] OTHER -> "none",
   Block |-> CASE o = "emptyitem" -> "empty" [] o = "block" -> "bytes" [] OTHER -> "none"]
NewBlockDownloadResponse(req, o) ==
  [id |-> req.id, Topology |-> req.Topology, PeerID |-> peerID,
   Err |-> CASE o = "err" -> "rpc" [] o = "zero" -> "zero" [] OTHER -> "none",
   Block |-> CASE o = "emptyitem" -> "empty" [] o = "block" -> "bytes" [] OTHER -> "none"]

\* h.client.CallContext(... "GetBlocksByID" ...) returns; resp is filled in.
WorkerRPCReturn(i, o) ==
  /\ wpc[i] = "rpc"
  /\ wresp' = [wresp EXCEPT ![i] = NewBlockDownloadResponse(wreq[i], o)]
  /\ wpc' = [wpc EXCEPT ![i] = "send"]
  /\ wout' = [wout EXCEPT ![i] = o]
  /\ UNCHANGED <<cmVars, coreVars, ctxDone, heightRangeChan, nSent, urlVars, heightRange, pollVars,
                 downloadRequestChan, nReq, wreq, respCount, windowHist>>

\* the goroutine's state once its response has been sent
AfterResponseSent == "done"

\* case h.downloadResponseChan <- *resp
WorkerSend(i) ==
  /\ wpc[i] = "send"
  /\ respCount[i] < MaxRequests + 1
  /\ respCount' = [respCount EXCEPT ![i] = respCount[i] + 1]
  /\ wpc' = [wpc EXCEPT ![i] = AfterResponseSent]
  /\ UNCHANGED <<cmVars, coreVars, ctxDone, heightRangeChan, nSent, urlVars, heightRange, pollVars,
                 downloadRequestChan, nReq, wreq, wresp, wout, windowHist>>

\* case <-ctx.Done(), in the goroutine's select
WorkerCancel(i) ==
  /\ wpc[i] = "send"
  /\ ctxDone
  /\ wpc' = [wpc EXCEPT ![i] = "done"]
  /\ UNCHANGED <<cmVars, coreVars, ctxDone, heightRangeChan, nSent, urlVars, heightRange, pollVars,
                 downloadRequestChan, nReq, wreq, wresp, respCount, wout,
                 windowHist>>

(***************************************************************************)
(* Specifications of the handler.  The download workers share nothing with *)
(* the window path but the context and peerHandlerLoop's select, so the    *)
(* two paths are explored separately, each with the full polling loop.     *)
(***************************************************************************)
\* peerHandlerLoop's polling cycle, the cancellation, the exits
NextPoll ==
  \/ Cancel
  \/ URLExit
  \/ PHLPoll
  \/ PollFail
  \/ \E resp \in TopologyResponses : PollOk(resp)
  \/ PHLEmit
  \/ PHLEmitCancel
  \/ PHLSendErr
  \/ PHLSendErrCancel
  \/ PHLExit

\* the window path: heightRangeChan -> heightRangeUpdateLoop -> peerHandlerLoop
NextWindow ==
  \/ SendWindow
  \/ URLRecv
  \/ PHLRecvWindow

\* the download path: downloadRequestChan -> peerHandlerLoop -> workers
NextDownload ==
  \/ \E r \in RequestKinds : SendRequest(r)
  \/ PHLRecvRequest
  \/ \E i \in ReqIds, o \in DownloadOutcomes : WorkerRPCReturn(i, o)
  \/ \E i \in ReqIds : WorkerSend(i)
  \/ \E i \in ReqIds : WorkerCancel(i)

(***************************************************************************)
(* BdmiProvider and DownloadManager.  The handlers appear as seen from the *)
(* channels they share with the scheduler.                                 *)
(***************************************************************************)
BlockIds == 1..MaxBlocks
\* peer ids in increasing order
PeerOrder == <<"p1", "p2">>
PeerRank(p) == CHOOSE k \in 1..Len(PeerOrder) : PeerOrder[k] = p

\* the results a handler's BlockDownloadResponse may carry: the block's
\* bytes, or an error (an empty result is treated as an error is)
DownloadResults == {"bytes", "error"}

\* an inventory slot with no entry
NoEntry == [state |-> "None", known_on |-> {}, peer |-> "none", attempts |-> 0, req |-> 0]

\* A node with every peer of Peers connected: each has a live cancellation
\* scope and a running handler; the inventory is empty.
InitDM ==
  dm = [ctx |-> [p \in Peers |-> "live"],
        loop |-> [p \in Peers |-> "run"],
        cycle |-> [p \in Peers |-> "select"],
        peerHasBlockChan |-> <<>>,
        downloadRequestChan |-> [p \in Peers |-> <<>>],
        workers |-> {},
        downloadResponseChan |-> <<>>,
        signal |-> "none",
        inventory |-> [b \in BlockIds |-> NoEntry],
        inflight |-> [p \in Peers |-> 0],
        inflight_total |-> 0,
        ready |-> <<>>,
        toSend |-> <<>>,
        nIssued |-> 0,
        nAdverts |-> 0,
        timedOut |-> {},
        swept |-> {}]

\* the peer the scheduler chooses for an entry: among the peers of known_on
\* below the per-peer limit, the one with the smallest inflight, then the
\* smallest peer id
EligiblePeers(known_on, inflight) ==
  {p \in known_on : inflight[p] < max_concurrent_downloads_per_peer}
ChoosePeer(known_on, inflight) ==
  CHOOSE p \in EligiblePeers(known_on, inflight) :
    \A q \in EligiblePeers(known_on, inflight) :
      \/ inflight[p] < inflight[q]
      \/ inflight[p] = inflight[q] /\ PeerRank(p) <= PeerRank(q)

\* One pass of the scheduler over the candidates b, b+1, ... (increasing
\* height): an Advertised entry with a qualifying peer becomes Downloading,
\* the counters go up and a BlockDownloadRequest is queued for emission; the
\* pass ends when inflight_total reaches the global limit.
RECURSIVE SchedulePass(_, _)
SchedulePass(d, b) ==
  IF \/ b > MaxBlocks
     \/ d.inflight_total >= max_concurrent_downloads_total
     \/ d.nIssued >= MaxIssued
    THEN d
    ELSE IF \/ d.inventory[b].state /= "Advertised"
            \/ EligiblePeers(d.inventory[b].known_on, d.inflight) = {}
      THEN SchedulePass(d, b + 1)
      ELSE LET p == ChoosePeer(d.inventory[b].known_on, d.inflight)
               r == [id |-> d.nIssued + 1, b |-> b, p |-> p]
           IN SchedulePass(
                [d EXCEPT !.inventory[b].state = "Downloading",
                          !.inventory[b].peer = p,
                          !.inventory[b].req = r.id,
                          !.inflight[p] = @ + 1,
                          !.inflight_total = @ + 1,
                          !.nIssued = @ + 1,
                          !.toSend = Append(@, r)],
                b + 1)

\* "After every state change, run one pass of the scheduler."
AfterChange(d) == SchedulePass(d, 1)

\* ----- the handlers and the ConnectionManager, as the scheduler sees them -----

\* peerHandlerCycle of p's handler sends PeerHasBlock{p, b}: the send case of
\* its select, which stays possible after the context is cancelled for as
\* long as the loop has not taken the ctx.Done case.
DMEmit_enabled(p) == dm.loop[p] = "run" /\ dm.cycle[p] = "emit"

\* peerHandlerLoop of p's handler takes the timer case; peerHandlerCycle
\* polls p and has at least one PeerHasBlock to send.  (A poll with an empty
\* answer or an error leaves nothing behind here.)
DMPoll(p) ==
  /\ dm.loop[p] = "run"
  /\ dm.cycle[p] = "select"
  /\ dm.ctx[p] = "live"
  /\ dm.nAdverts < MaxAdverts
  /\ dm' = [dm EXCEPT !.cycle[p] = "emit"]
  /\ UNCHANGED <<phVars, cmVars, gt, sm>>

\* the emit loop sends PeerHasBlock{p, b}; with more = FALSE it was the last
\* of the answer and peerHandlerCycle returns to peerHandlerLoop's select
DMEmit(p, b, more) ==
  /\ DMEmit_enabled(p)
  /\ Len(dm.peerHasBlockChan) < PeerHasBlockCap
  /\ dm.nAdverts < MaxAdverts
  /\ dm' = [dm EXCEPT !.peerHasBlockChan = Append(@, [PeerID |-> p, b |-> b]),
                       !.nAdverts = @ + 1,
                       !.cycle[p] = IF more THEN "emit" ELSE "select"]
  /\ UNCHANGED <<phVars, cmVars, gt, sm>>

\* the emit loop takes the ctx.Done case and peerHandlerCycle returns
DMEmitCancel(p) ==
  /\ dm.loop[p] = "run"
  /\ dm.cycle[p] = "emit"
  /\ dm.ctx[p] = "cancelled"
  /\ dm' = [dm EXCEPT !.cycle[p] = "select"]
  /\ UNCHANGED <<phVars, cmVars, gt, sm>>

\* peerHandlerLoop of p's handler takes a ctx.Done case and returns
DMLoopExit(p) ==
  /\ dm.loop[p] = "run"
  /\ dm.cycle[p] = "select"
  /\ dm.ctx[p] = "cancelled"
  /\ dm' = [dm EXCEPT !.loop[p] = "done"]
  /\ UNCHANGED <<phVars, cmVars, gt, sm>>

\* peerHandlerLoop of p's handler receives a request and starts its goroutine
DMRecvRequest(p) ==
  /\ dm.loop[p] = "run"
  /\ dm.cycle[p] = "select"
  /\ dm.downloadRequestChan[p] /= <<>>
  /\ dm' = [dm EXCEPT !.downloadRequestChan[p] = Tail(@),
                       !.workers = @ \cup {Head(dm.downloadRequestChan[p])}]
  /\ UNCHANGED <<phVars, cmVars, gt, sm>>

\* a download goroutine sends its BlockDownloadResponse
DMWorkerAnswer(r, res) ==
  /\ r \in dm.workers
  /\ Len(dm.downloadResponseChan) < DownloadResponseCap
  /\ dm' = [dm EXCEPT !.workers = @ \ {r},
                       !.timedOut = @ \ {r.id},
                       !.downloadResponseChan =
                          Append(@, [b |-> r.b, PeerID |-> r.p, result |-> res])]
  /\ UNCHANGED <<phVars, cmVars, gt, sm>>

\* a download goroutine takes the ctx.Done case and returns
DMWorkerCancel(r) ==
  /\ r \in dm.workers
  /\ dm.ctx[r.p] = "cancelled"
  /\ dm' = [dm EXCEPT !.workers = @ \ {r}, !.timedOut = @ \ {r.id}]
  /\ UNCHANGED <<phVars, cmVars, gt, sm>>

\* handleDisconnected for p: it cancels p's context and goes on to send p on
\* signalPeerDisconnectChan, without waiting for p's handler.
DMDisconnect(p) ==
  /\ dm.ctx[p] = "live"
  /\ Cardinality({q \in Peers : dm.ctx[q] = "cancelled"}) < MaxDisconnects
  /\ dm.signal = "none"
  /\ dm' = [dm EXCEPT !.ctx[p] = "cancelled", !.signal = p]
  /\ UNCHANGED <<phVars, cmVars, gt, sm>>

\* ----- the scheduler -----

\* Ingest: upsert the inventory entry of b and add p to known_on.  (Every
\* block of BlockIds is above last_irreversible and inside the window, and no
\* checkpoint is configured.)
Ingest(d, p, b) ==
  IF d.inventory[b].state = "None"
    THEN [d EXCEPT !.inventory[b] = [NoEntry EXCEPT !.state = "Advertised",
                                                     !.known_on = {p}]]
    ELSE [d EXCEPT !.inventory[b].known_on = @ \cup {p}]

DMIngest ==
  /\ dm.toSend = <<>>
  /\ dm.peerHasBlockChan /= <<>>
  /\ LET m == Head(dm.peerHasBlockChan) IN
       dm' = AfterChange(Ingest([dm EXCEPT !.peerHasBlockChan = Tail(@)], m.PeerID, m.b))
  /\ UNCHANGED <<phVars, cmVars, gt, sm>>

\* "On empty/error/timeout: increment attempts; remove peer from known_on;
\* ... if attempts >= max_download_attempts or known_on is empty, transition
\* to Failed and drop the entry"; otherwise the entry is Advertised again.
\* (The PeerErrors that blame the peers are outputs and leave no trace in the
\* scheduler's state.)
FailEntry(d, b, p) ==
  LET e == d.inventory[b]
      known == e.known_on \ {p}
      failed == e.attempts + 1 >= max_download_attempts \/ known = {}
  IN [d EXCEPT !.inventory[b] =
                  IF failed THEN NoEntry
                  ELSE [e EXCEPT !.state = "Advertised", !.peer = "none", !.req = 0,
                                 !.attempts = @ + 1, !.known_on = known]]

\* "Decrement counters."
DecrementCounters(d, p) ==
  [d EXCEPT !.inflight[p] = @ - 1, !.inflight_total = @ - 1]

\* a download of b from p ended empty, in an error or in a timeout
FailDownload(d, b, p) == FailEntry(DecrementCounters(d, p), b, p)

\* Completion, on BlockDownloadResponse{topology, peer, result}: the counters
\* are decremented; an entry that is Downloading becomes Downloaded and is
\* pushed to the ready-FIFO on success, and fails as above otherwise.  An
\* entry in another state, or no entry, has no transition to make.
Completion(d, m) ==
  IF d.inventory[m.b].state = "Downloading"
    THEN IF m.result = "bytes"
           THEN [DecrementCounters(d, m.PeerID)
                   EXCEPT !.inventory[m.b].state = "Downloaded",
                          !.inventory[m.b].peer = "none",
                          !.inventory[m.b].req = 0,
                          !.ready = Append(@, m.b)]
           ELSE FailDownload(d, m.b, m.PeerID)
    ELSE DecrementCounters(d, m.PeerID)

DMCompletion ==
  /\ dm.toSend = <<>>
  /\ dm.downloadResponseChan /= <<>>
  /\ dm' = AfterChange(Completion([dm EXCEPT !.downloadResponseChan = Tail(@)],
                                    Head(dm.downloadResponseChan)))
  /\ UNCHANGED <<phVars, cmVars, gt, sm>>

\* Timeouts: a Downloading entry past its deadline is treated as a returned
\* error.
DMTimeout(b) ==
  /\ dm.toSend = <<>>
  /\ dm.inventory[b].state = "Downloading"
  /\ dm' = AfterChange(FailDownload([dm EXCEPT !.timedOut = @ \cup {dm.inventory[b].req}],
                                      b, dm.inventory[b].peer))
  /\ UNCHANGED <<phVars, cmVars, gt, sm>>

\* On peer disconnect: p leaves every known_on, an entry Downloading from p
\* goes back to Advertised, and an Advertised entry with an empty known_on is
\* deleted.
SweptEntry(e, p) ==
  LET e1 == IF e.state = "Downloading" /\ e.peer = p
              THEN [e EXCEPT !.state = "Advertised", !.peer = "none", !.req = 0,
                             !.known_on = @ \ {p}]
              ELSE [e EXCEPT !.known_on = @ \ {p}]
  IN IF e1.state = "Advertised" /\ e1.known_on = {} THEN NoEntry ELSE e1

Sweep(d, p) ==
  [d EXCEPT !.inventory = [b \in BlockIds |-> SweptEntry(d.inventory[b], p)],
            !.swept = @ \cup {p}]

\* the scheduler receives p from signalPeerDisconnectChan and sweeps
DMSweep ==
  /\ dm.toSend = <<>>
  /\ dm.signal /= "none"
  /\ dm' = AfterChange(Sweep([dm EXCEPT !.signal = "none"], dm.signal))
  /\ UNCHANGED <<phVars, cmVars, gt, sm>>

\* The scheduler emits the next BlockDownloadRequest through BdmiProvider to
\* the handler of its peer, waiting for room in the handler's channel; a
\* request for a peer BdmiProvider has no handler for any more is dropped.
DMSendRequest ==
  /\ dm.toSend /= <<>>
  /\ LET r == Head(dm.toSend) IN
       IF r.p \in dm.swept
         THEN dm' = [dm EXCEPT !.toSend = Tail(@), !.timedOut = @ \ {r.id}]
         ELSE /\ Len(dm.downloadRequestChan[r.p]) < DownloadRequestCap
              /\ dm' = [dm EXCEPT !.toSend = Tail(@),
                                   !.downloadRequestChan[r.p] = Append(@, r)]
  /\ UNCHANGED <<phVars, cmVars, gt, sm>>

NextDM ==
  \/ \E p \in Peers : DMPoll(p)
  \/ \E p \in Peers, b \in BlockIds, more \in BOOLEAN : DMEmit(p, b, more)
  \/ \E p \in Peers : DMEmitCancel(p)
  \/ \E p \in Peers : DMLoopExit(p)
  \/ \E p \in Peers : DMRecvRequest(p)
  \/ \E r \in dm.workers, res \in DownloadResults : DMWorkerAnswer(r, res)
  \/ \E r \in dm.workers : DMWorkerCancel(r)
  \/ \E p \in Peers : DMDisconnect(p)
  \/ DMIngest
  \/ DMCompletion
  \/ \E b \in BlockIds : DMTimeout(b)
  \/ DMSweep
  \/ DMSendRequest

(***************************************************************************)
(* SyncManager in its Syncing state, and the LocalChain it applies to.     *)
(***************************************************************************)
ReadyBlocks == 1..MaxReady
\* The topologies of the downloaded blocks.  Block 0 is the local head at
\* start; blocks 1, 2, 4, ... and 1, 3, 5, ... are two chains that fork
\* after block 1.
Previous(b) == IF b <= 2 THEN b - 1 ELSE b - 2
RECURSIVE Height(_)
Height(b) == IF b = 0 THEN 0 ELSE Height(Previous(b)) + 1

\* the results of LocalChain.apply_block, a failed call counting as Rejected
ApplyResults == {"Accepted", "Rejected"}

InitSM ==
  sm = [ready |-> <<>>,        \* the ready-FIFO
        notified |-> {},        \* blocks the DownloadManager has pushed
        pending |-> {},         \* the pending-by-parent map (each block under its parent)
        held |-> {},            \* blocks that were ever held in it
        local_head |-> 0,
        batch |-> {},           \* blocks applied in this batch
        applying |-> 0,         \* the block apply_block is running for
        applied |-> <<>>]       \* the blocks LocalChain accepted, in order

\* "whose topology.previous is either local_head.id or already-applied in
\* this batch"
CanApply_any(b) == TRUE
CanApply(b) == Previous(b) = sm.local_head \/ Previous(b) \in sm.batch

\* the entries held under parent b, in increasing id order
RECURSIVE InIdOrder(_)
InIdOrder(S) ==
  IF S = {} THEN <<>>
  ELSE LET m == CHOOSE x \in S : \A y \in S : x <= y
       IN <<m>> \o InIdOrder(S \ {m})
HeldUnder(b) == {c \in sm.pending : Previous(c) = b}

\* the DownloadManager pushes a Downloaded entry to the ready-FIFO; downloads
\* complete in any order
SMNotify(b) ==
  /\ b \notin sm.notified
  /\ sm' = [sm EXCEPT !.ready = Append(@, b), !.notified = @ \cup {b}]
  /\ UNCHANGED <<phVars, cmVars, gt, dm>>

\* SyncManager takes the next ready entry: it calls apply_block for it, or
\* holds it in the pending-by-parent map
SMTake ==
  /\ sm.applying = 0
  /\ sm.ready /= <<>>
  /\ LET b == Head(sm.ready) IN
       IF CanApply(b)
         THEN sm' = [sm EXCEPT !.ready = Tail(@), !.applying = b]
         ELSE sm' = [sm EXCEPT !.ready = Tail(@), !.pending = @ \cup {b},
                               !.held = @ \cup {b}]
  /\ UNCHANGED <<phVars, cmVars, gt, dm>>

\* apply_block returns.  On a successful apply local_head is refreshed (the
\* chain's head is its highest block) and the entries held under the block
\* are taken next.
SMApplyReturn(res) ==
  /\ sm.applying /= 0
  /\ LET b == sm.applying IN
       IF res = "Accepted"
         THEN sm' = [sm EXCEPT !.applying = 0,
                               !.applied = Append(@, b),
                               !.batch = @ \cup {b},
                               !.local_head = IF Height(b) > Height(@) THEN b ELSE @,
                               !.pending = @ \ HeldUnder(b),
                               !.ready = InIdOrder(HeldUnder(b)) \o @]
         ELSE sm' = [sm EXCEPT !.applying = 0]
  /\ UNCHANGED <<phVars, cmVars, gt, dm>>

\* the ready-FIFO is drained: the batch ends
SMEndBatch ==
  /\ sm.applying = 0
  /\ sm.ready = <<>>
  /\ sm.batch /= {}
  /\ sm' = [sm EXCEPT !.batch = {}]
  /\ UNCHANGED <<phVars, cmVars, gt, dm>>

\* fork_heads_stream reports a head change that did not come from this
\* SyncManager's applies: the head moves to another block of the chain
SMHeadChange(h) ==
  /\ h /= sm.local_head
  /\ h = 0 \/ \E i \in 1..Len(sm.applied) : sm.applied[i] = h
  /\ sm' = [sm EXCEPT !.local_head = h]
  /\ UNCHANGED <<phVars, cmVars, gt, dm>>

NextSM ==
  \/ \E b \in ReadyBlocks : SMNotify(b)
  \/ SMTake
  \/ \E res \in ApplyResults : SMApplyReturn(res)
  \/ SMEndBatch
  \/ \E h \in {0} \cup ReadyBlocks : SMHeadChange(h)

(***************************************************************************)
(* The gossip options and the GossipToggle                                 *)
(***************************************************************************)
\* func NewGossipToggleOptions
NewGossipToggleOptions_lowEnable ==
  [EnableThreshold |-> disableThresholdDefault,
   DisableThreshold |-> disableThresholdDefault,
   AlwaysEnable |-> FALSE, AlwaysDisable |-> FALSE]
NewGossipToggleOptions ==
  [EnableThreshold |-> enableThresholdDefault,
   DisableThreshold |-> disableThresholdDefault,
   AlwaysEnable |-> FALSE, AlwaysDisable |-> FALSE]

\* main: config.GossipToggleOptions after the --disable-gossip and
\* --force-gossip options are applied
MainGossipOptions(disableGossip, forceGossip) ==
  [NewGossipToggleOptions EXCEPT
     !.AlwaysDisable = IF disableGossip THEN TRUE ELSE @,
     !.AlwaysEnable = IF forceGossip THEN TRUE ELSE @]

\* the states the override flags pin the toggle to (both, when both are set)
GTPinned(o) ==
  (IF o.AlwaysEnable THEN {TRUE} ELSE {}) \cup (IF o.AlwaysDisable THEN {FALSE} ELSE {})

\* the state the transition rules ask for, with f = ahead / total
GTTarget(o, enabled, ahead, total) ==
  IF total = 0 THEN FALSE
  ELSE IF ~enabled /\ ahead * 100 >= o.EnableThreshold * total THEN TRUE
  ELSE IF enabled /\ ahead * 100 <= o.DisableThreshold * total THEN FALSE
  ELSE enabled

\* the toggle as constructed with options o, pinned to start
InitGTWith(o, start) ==
  gt = [opts |-> o, enabled |-> start, ahead |-> 0, total |-> 0,
        sinceToggle |-> MinToggleTicks]

\* the toggle of a node started with any combination of the two options
InitGT ==
  \E disableGossip, forceGossip \in BOOLEAN :
    \E start \in (IF GTPinned(MainGossipOptions(disableGossip, forceGossip)) = {}
                    THEN {FALSE}
                    ELSE GTPinned(MainGossipOptions(disableGossip, forceGossip))) :
      InitGTWith(MainGossipOptions(disableGossip, forceGossip), start)

\* A new fraction arrives: ahead of total peers are at or above the local
\* head.  An override pins the state; otherwise the state changes by the
\* transition rules, and only min_toggle_interval after the last change.
GTUpdate(ahead, total) ==
  \E target \in (IF GTPinned(gt.opts) = {}
                   THEN {GTTarget(gt.opts, gt.enabled, ahead, total)}
                   ELSE GTPinned(gt.opts)) :
    /\ gt' = IF target /= gt.enabled
                 /\ (GTPinned(gt.opts) /= {} \/ gt.sinceToggle >= MinToggleTicks)
               THEN [gt EXCEPT !.enabled = target, !.ahead = ahead,
                                !.total = total, !.sinceToggle = 0]
               ELSE [gt EXCEPT !.ahead = ahead, !.total = total]
    /\ UNCHANGED <<phVars, cmVars, dm, sm>>

\* the clock advances by one tick
GTTick ==
  /\ gt.sinceToggle < MinToggleTicks
  /\ gt' = [gt EXCEPT !.sinceToggle = @ + 1]
  /\ UNCHANGED <<phVars, cmVars, dm, sm>>

NextGT ==
  \/ \E total \in 0..MaxGossipPeers : \E ahead \in 0..total : GTUpdate(ahead, total)
  \/ GTTick

(***************************************************************************)
(* ConnectionManager                                                       *)
(***************************************************************************)
ZeroPeers == [p \in Peers |-> 0]

\* The state after NewConnectionManager, before Start; pre is the set of
\* peers the host is already connected to, ips the initial peers given.
InitCMFor(pre, ips) ==
  /\ initialPeers = ips
  /\ rootDone = FALSE
  /\ startPc = "peers"
  /\ startPeers = pre
  /\ mgrPc = "idle"
  /\ dpid = "none"
  /\ connectedPeers = ZeroPeers
  /\ pcs = <<>>
  /\ netConns = [p \in Peers |-> IF p \in pre THEN 1 ELSE 0]
  /\ nOpened = Cardinality(pre)
  /\ pendConn = ZeroPeers
  /\ pendDisc = ZeroPeers
  /\ reconn = EmptyBag
  /\ cipPc = "idle"
  /\ cipTodo = {}
  /\ peersToConnect = {}
  /\ newlyConnectedPeers = {}
  /\ sleepTimeSeconds = 1
  /\ cipAttempts = 0
  /\ signalled = <<>>
  /\ processed = <<>>
  /\ dinst = 0

InitCMWith(pre) == InitCMFor(pre, InitialPeerIDs)

\* a handler not yet running beside a ConnectionManager before Start
InitCM ==
  /\ InitPH
  /\ InitGTWith(NewGossipToggleOptions, FALSE)
  /\ InitDM
  /\ InitSM
  /\ \E pre \in SUBSET Peers : InitCMWith(pre)
\* a handler just started; the ConnectionManager stays as constructed
Init == InitPH /\ InitCMWith({}) /\ InitGTWith(NewGossipToggleOptions, FALSE) /\ InitDM /\ InitSM
\* a node's GossipToggle; handler and ConnectionManager stay as constructed
InitToggle == InitPH /\ InitCMWith({}) /\ InitGT /\ InitDM /\ InitSM
\* a ConnectionManager constructed with any set of initial peers, on a host
\* with no connection yet
InitIP ==
  /\ InitPH
  /\ InitGTWith(NewGossipToggleOptions, FALSE)
  /\ InitDM
  /\ InitSM
  /\ \E ips \in SUBSET Peers : InitCMFor({}, ips)

\* a PeerConnection's context is done: its cancel was called, or the root's
PeerCtxDone(k) == pcs[k].cancelled \/ rootDone

\* func min
min(a, b) == IF a < b THEN a ELSE b

\* the next sleep of a retry loop: sleepTimeSeconds = min(maxSleepBackoff, sleepTimeSeconds*2)
NextSleep_uncapped(t) == t * 2
NextSleep(t) == min(maxSleepBackoff, t * 2)

\* the number of sleeps a retry loop has started, counted up to MaxAttempts
CountAttempt(n) == min(MaxAttempts, n + 1)

\* a reconnect goroutine as handleDisconnected starts it
NewReconnect(p) == [peer |-> p, sleepTimeSeconds |-> 1, pc |-> "dial", attempts |-> 0]

\* The context passed to Start is cancelled.
RootCancel ==
  /\ ~rootDone
  /\ rootDone' = TRUE
  /\ UNCHANGED <<phVars, coreVars, initialPeers, startPc, startPeers, mgrPc, dpid, connectedPeers, pcs, netConns,
                 nOpened, pendConn, pendDisc, reconn, cipPc, cipTodo,
                 peersToConnect, newlyConnectedPeers, sleepTimeSeconds, cipAttempts,
                 signalled, processed, dinst>>

\* The overlay opens a connection to p (a remote dial) and calls Connected,
\* which blocks in "c.peerConnectedChan <- ...".
NetConnect(p) ==
  /\ nOpened < MaxOpens
  /\ nOpened' = nOpened + 1
  /\ netConns' = [netConns EXCEPT ![p] = @ + 1]
  /\ pendConn' = [pendConn EXCEPT ![p] = @ + 1]
  /\ UNCHANGED <<phVars, coreVars, initialPeers, rootDone, startPc, startPeers, mgrPc, dpid, connectedPeers, pcs,
                 pendDisc, reconn, cipPc, cipTodo, peersToConnect,
                 newlyConnectedPeers, sleepTimeSeconds, cipAttempts, signalled, processed,
                 dinst>>

\* A connection to p whose Connected call has returned closes; the overlay
\* calls Disconnected, which blocks in "c.peerDisconnectedChan <- ...".
NetDisconnect(p) ==
  /\ netConns[p] - pendConn[p] > 0
  /\ netConns' = [netConns EXCEPT ![p] = @ - 1]
  /\ pendDisc' = [pendDisc EXCEPT ![p] = @ + 1]
  /\ UNCHANGED <<phVars, coreVars, initialPeers, rootDone, startPc, startPeers, mgrPc, dpid, connectedPeers, pcs,
                 nOpened, pendConn, reconn, cipPc, cipTodo, peersToConnect,
                 newlyConnectedPeers, sleepTimeSeconds, cipAttempts, signalled, processed,
                 dinst>>

\* Start's goroutine, in its loop over host.Network().Peers(): p has no
\* connection any more (len(conns) = 0) and is skipped.
StartSkip(p) ==
  /\ startPc = "peers"
  /\ p \in startPeers
  /\ netConns[p] = 0
  /\ startPeers' = startPeers \ {p}
  /\ UNCHANGED <<phVars, coreVars, initialPeers, rootDone, startPc, mgrPc, dpid, connectedPeers, pcs,
                 netConns, nOpened, pendConn, pendDisc, reconn, cipPc, cipTodo,
                 peersToConnect, newlyConnectedPeers, sleepTimeSeconds, cipAttempts,
                 signalled, processed, dinst>>

\* Start's goroutine: p has a connection, and the goroutine sends on the
\* unbuffered peerConnectedChan.  Only managerLoop receives from that channel
\* and managerLoop is started after this loop: the send never completes.
StartAnnounce(p) ==
  /\ startPc = "peers"
  /\ p \in startPeers
  /\ netConns[p] > 0
  /\ startPc' = "blocked"
  /\ UNCHANGED <<phVars, coreVars, initialPeers, rootDone, startPeers, mgrPc, dpid, connectedPeers, pcs,
                 netConns, nOpened, pendConn, pendDisc, reconn, cipPc, cipTodo,
                 peersToConnect, newlyConnectedPeers, sleepTimeSeconds, cipAttempts,
                 signalled, processed, dinst>>

\* Start's goroutine, after the loop: go c.connectInitialPeers(),
\* go c.managerLoop(ctx).
StartSpawn ==
  /\ startPc = "peers"
  /\ startPeers = {}
  /\ startPc' = "done"
  /\ mgrPc' = "select"
  /\ cipPc' = IF initialPeers = {} THEN "done" ELSE "round"
  /\ cipTodo' = initialPeers
  /\ peersToConnect' = initialPeers
  /\ UNCHANGED <<phVars, coreVars, initialPeers, rootDone, startPeers, dpid, connectedPeers, pcs, netConns,
                 nOpened, pendConn, pendDisc, reconn, newlyConnectedPeers,
                 sleepTimeSeconds, cipAttempts, signalled, processed, dinst>>

\* the channels passed to NewConnectionManager
ChanArgs == [peerErrorChan |-> "peerErrorChan", gossipVoteChan |-> "gossipVoteChan"]

\* func NewConnectionManager: the channel fields of the struct it returns.
\* The composite literal sets peerErrorChan; it has no line for
\* gossipVoteChan, which keeps its zero value.
NewConnectionManager(args) ==
  [peerErrorChan |-> args.peerErrorChan, gossipVoteChan |-> "nil"]

\* NewPeerConnection(pid, c.localRPC, ..., c.peerErrorChan, c.gossipVoteChan,
\* c.peerOpts), as handleConnected calls it
NewPeerConnection(pid, c) ==
  [peer |-> pid, cancelled |-> FALSE,
   peerErrorChan |-> c.peerErrorChan, gossipVoteChan |-> c.gossipVoteChan]

\* handleConnected: the entry of pid after the call
Register_always(cp, pid, k) == [cp EXCEPT ![pid] = k]
Register(cp, pid, k) == IF cp[pid] = 0 THEN [cp EXCEPT ![pid] = k] ELSE cp

\* case connMsg := <-c.peerConnectedChan: c.handleConnected(ctx, connMsg)
HandleConnected(p) ==
  /\ mgrPc = "select"
  /\ pendConn[p] > 0
  /\ pendConn' = [pendConn EXCEPT ![p] = @ - 1]
  /\ connectedPeers' = Register(connectedPeers, p, Len(pcs) + 1)
  /\ pcs' = IF connectedPeers'[p] = Len(pcs) + 1
              THEN Append(pcs, NewPeerConnection(p, NewConnectionManager(ChanArgs)))
              ELSE pcs
  /\ UNCHANGED <<phVars, coreVars, initialPeers, rootDone, startPc, startPeers, mgrPc, dpid, netConns, nOpened,
                 pendDisc, reconn, cipPc, cipTodo, peersToConnect,
                 newlyConnectedPeers, sleepTimeSeconds, cipAttempts, signalled, processed,
                 dinst>>

\* handleDisconnected: the PeerConnections whose cancel it calls
ToCancel_all(cp, pid) == {cp[q] : q \in Peers} \ {0}
ToCancel(cp, pid) == {cp[pid]} \ {0}

\* handleDisconnected: c.connectedPeers after the call
Deregister_keeps(cp, pid) == cp
Deregister(cp, pid) == [cp EXCEPT ![pid] = 0]

\* case connMsg := <-c.peerDisconnectedChan: c.handleDisconnected(ctx, connMsg),
\* up to its select: cancel and delete the entry, start the reconnect
\* goroutine of an initial peer.
HandleDisconnected(p) ==
  /\ mgrPc = "select"
  /\ pendDisc[p] > 0
  /\ pendDisc' = [pendDisc EXCEPT ![p] = @ - 1]
  /\ pcs' = [k \in 1..Len(pcs) |->
               IF k \in ToCancel(connectedPeers, p)
                 THEN [pcs[k] EXCEPT !.cancelled = TRUE] ELSE pcs[k]]
  /\ connectedPeers' = Deregister(connectedPeers, p)
  /\ reconn' = IF p \in initialPeers
                 THEN reconn (+) SetToBag({NewReconnect(p)})
                 ELSE reconn
  /\ mgrPc' = "signal"
  /\ dpid' = p
  /\ dinst' = connectedPeers[p]
  /\ processed' = Append(processed, p)
  /\ UNCHANGED <<phVars, coreVars, initialPeers, rootDone, startPc, startPeers, netConns, nOpened, pendConn,
                 cipPc, cipTodo, peersToConnect, newlyConnectedPeers,
                 sleepTimeSeconds, cipAttempts, signalled>>

\* case c.signalPeerDisconnectChan <- pid
SignalSend ==
  /\ mgrPc = "signal"
  /\ signalled' = Append(signalled, dpid)
  /\ mgrPc' = "select"
  /\ dpid' = "none"
  /\ dinst' = 0
  /\ UNCHANGED <<phVars, coreVars, initialPeers, rootDone, startPc, startPeers, connectedPeers, pcs, netConns,
                 nOpened, pendConn, pendDisc, reconn, cipPc, cipTodo,
                 peersToConnect, newlyConnectedPeers, sleepTimeSeconds, cipAttempts, processed>>

\* case <-ctx.Done(), in handleDisconnected
SignalCancel ==
  /\ mgrPc = "signal"
  /\ rootDone
  /\ mgrPc' = "select"
  /\ dpid' = "none"
  /\ dinst' = 0
  /\ UNCHANGED <<phVars, coreVars, initialPeers, rootDone, startPc, startPeers, connectedPeers, pcs, netConns,
                 nOpened, pendConn, pendDisc, reconn, cipPc, cipTodo,
                 peersToConnect, newlyConnectedPeers, sleepTimeSeconds, cipAttempts,
                 signalled, processed>>

\* case <-ctx.Done(): return, in managerLoop
ManagerExit ==
  /\ mgrPc = "select"
  /\ rootDone
  /\ mgrPc' = "done"
  /\ UNCHANGED <<phVars, coreVars, initialPeers, rootDone, startPc, startPeers, dpid, connectedPeers, pcs,
                 netConns, nOpened, pendConn, pendDisc, reconn, cipPc, cipTodo,
                 peersToConnect, newlyConnectedPeers, sleepTimeSeconds, cipAttempts,
                 signalled, processed, dinst>>

\* c.connectToPeer(addr) returns nil: host.Connect found p connected, or
\* opened a connection (whose Connected call is then pending).
DialOk(p) ==
  /\ netConns[p] > 0 \/ nOpened < MaxOpens
  /\ IF netConns[p] > 0
       THEN UNCHANGED <<netConns, nOpened, pendConn>>
       ELSE /\ nOpened' = nOpened + 1
            /\ netConns' = [netConns EXCEPT ![p] = 1]
            /\ pendConn' = [pendConn EXCEPT ![p] = @ + 1]

\* The reconnect goroutine of handleDisconnected: connectToPeer succeeds and
\* the goroutine returns.
ReconnectOk(r) ==
  /\ BagIn(r, reconn)
  /\ r.pc = "dial"
  /\ DialOk(r.peer)
  /\ reconn' = reconn (-) SetToBag({r})
  /\ UNCHANGED <<phVars, coreVars, initialPeers, rootDone, startPc, startPeers, mgrPc, dpid, connectedPeers, pcs,
                 pendDisc, cipPc, cipTodo, peersToConnect, newlyConnectedPeers,
                 sleepTimeSeconds, cipAttempts, signalled, processed, dinst>>

\* The reconnect goroutine: connectToPeer fails and the goroutine goes to
\* sleep for sleepTimeSeconds.
ReconnectFail(r) ==
  /\ BagIn(r, reconn)
  /\ r.pc = "dial"
  /\ netConns[r.peer] = 0
  /\ reconn' = (reconn (-) SetToBag({r}))
                 (+) SetToBag({[r EXCEPT !.pc = "sleep",
                                         !.attempts = CountAttempt(@)]})
  /\ UNCHANGED <<phVars, coreVars, initialPeers, rootDone, startPc, startPeers, mgrPc, dpid, connectedPeers, pcs,
                 netConns, nOpened, pendConn, pendDisc, cipPc, cipTodo,
                 peersToConnect, newlyConnectedPeers, sleepTimeSeconds, cipAttempts,
                 cipAttempts, signalled, processed, dinst>>

\* The reconnect goroutine: time.Sleep is over, sleepTimeSeconds doubles up
\* to maxSleepBackoff, and the loop dials again.
ReconnectSleep(r) ==
  /\ BagIn(r, reconn)
  /\ r.pc = "sleep"
  /\ reconn' = (reconn (-) SetToBag({r}))
                 (+) SetToBag({[r EXCEPT !.pc = "dial",
                                         !.sleepTimeSeconds = NextSleep(@)]})
  /\ UNCHANGED <<phVars, coreVars, initialPeers, rootDone, startPc, startPeers, mgrPc, dpid, connectedPeers, pcs,
                 netConns, nOpened, pendConn, pendDisc, cipPc, cipTodo,
                 peersToConnect, newlyConnectedPeers, sleepTimeSeconds, cipAttempts,
                 cipAttempts, signalled, processed, dinst>>

\* connectInitialPeers: the inner loop dials an initial peer; after the last
\* one of the round the newly connected peers leave peersToConnect.
CipAfterDial(p, newly) ==
  /\ cipTodo' = cipTodo \ {p}
  /\ IF cipTodo \ {p} = {}
       THEN /\ peersToConnect' = peersToConnect \ newly
            /\ newlyConnectedPeers' = {}
            /\ cipPc' = "sleep"
            /\ cipAttempts' = CountAttempt(cipAttempts)
       ELSE /\ peersToConnect' = peersToConnect
            /\ newlyConnectedPeers' = newly
            /\ cipPc' = cipPc
            /\ cipAttempts' = cipAttempts

CipDialOk(p) ==
  /\ cipPc = "round"
  /\ p \in cipTodo
  /\ DialOk(p)
  /\ CipAfterDial(p, newlyConnectedPeers \cup {p})
  /\ UNCHANGED <<phVars, coreVars, initialPeers, rootDone, startPc, startPeers, mgrPc, dpid, connectedPeers, pcs,
                 pendDisc, reconn, sleepTimeSeconds, signalled, processed, dinst>>

CipDialFail(p) ==
  /\ cipPc = "round"
  /\ p \in cipTodo
  /\ netConns[p] = 0
  /\ CipAfterDial(p, newlyConnectedPeers)
  /\ UNCHANGED <<phVars, coreVars, initialPeers, rootDone, startPc, startPeers, mgrPc, dpid, connectedPeers, pcs,
                 netConns, nOpened, pendConn, pendDisc, reconn, sleepTimeSeconds,
                 signalled, processed, dinst>>

\* connectInitialPeers: time.Sleep is over, sleepTimeSeconds doubles, the
\* outer loop tests len(peersToConnect) > 0.
CipSleep ==
  /\ cipPc = "sleep"
  /\ sleepTimeSeconds' = NextSleep(sleepTimeSeconds)
  /\ IF peersToConnect = {}
       THEN cipPc' = "done" /\ cipTodo' = {}
       ELSE cipPc' = "round" /\ cipTodo' = initialPeers
  /\ UNCHANGED <<phVars, coreVars, initialPeers, rootDone, startPc, startPeers, mgrPc, dpid, connectedPeers, pcs,
                 netConns, nOpened, pendConn, pendDisc, reconn, peersToConnect,
                 newlyConnectedPeers, cipAttempts, signalled, processed, dinst>>

NextCM ==
  \/ RootCancel
  \/ \E p \in Peers : NetConnect(p)
  \/ \E p \in Peers : NetDisconnect(p)
  \/ \E p \in Peers : StartSkip(p)
  \/ \E p \in Peers : StartAnnounce(p)
  \/ StartSpawn
  \/ \E p \in Peers : HandleConnected(p)
  \/ \E p \in Peers : HandleDisconnected(p)
  \/ SignalSend
  \/ SignalCancel
  \/ ManagerExit
  \/ \E r \in BagToSet(reconn) : ReconnectOk(r)
  \/ \E r \in BagToSet(reconn) : ReconnectFail(r)
  \/ \E r \in BagToSet(reconn) : ReconnectSleep(r)
  \/ \E p \in Peers : CipDialOk(p)
  \/ \E p \in Peers : CipDialFail(p)
  \/ CipSleep

NextSpec == NextPoll \/ NextWindow
Spec == Init /\ [][NextSpec]_vars

NextDL == NextPoll \/ NextDownload
SpecDL == Init /\ [][NextDL]_vars

\* SpecDL with the fairness of the Go runtime: a call with a deadline
\* returns; a goroutine blocked in a select whose ctx.Done() case is ready
\* goes on; a loop that comes back to a select whose ctx.Done() case is ready
\* every time takes that case in the end (the select picks at random among
\* the ready cases).  Nothing is assumed of the readers of peerHasBlockChan,
\* downloadResponseChan and errChan.
FairnessDL ==
  /\ WF_vars(URLExit)
  /\ SF_vars(PHLExit)
  /\ WF_vars(PollFail \/ \E resp \in TopologyResponses : PollOk(resp))
  /\ WF_vars(PHLEmitCancel)
  /\ WF_vars(PHLSendErrCancel)
  /\ \A i \in ReqIds : WF_vars(\E o \in DownloadOutcomes : WorkerRPCReturn(i, o))
  /\ \A i \in ReqIds : WF_vars(WorkerCancel(i))
FairSpecDL == SpecDL /\ FairnessDL

\* the whole handler
NextPH == NextPoll \/ NextWindow \/ NextDownload
SpecPH == Init /\ [][NextPH]_vars

SpecCM == InitCM /\ [][NextCM]_vars

SpecDM == Init /\ [][NextDM]_vars
SpecSM == Init /\ [][NextSM]_vars

\* Start and connectInitialPeers, with the Connected events of the dials
NextIP ==
  \/ StartSpawn
  \/ \E p \in Peers : NetConnect(p)
  \/ \E p \in Peers : HandleConnected(p)
  \/ \E p \in Peers : CipDialOk(p)
  \/ \E p \in Peers : CipDialFail(p)
  \/ CipSleep
SpecIP == InitIP /\ [][NextIP]_vars

SpecGT == InitToggle /\ [][NextGT]_vars

\* the states a reconnect goroutine can be in
ReconnectStates ==
  [peer : InitialPeerIDs, sleepTimeSeconds : {1, 2, 4, 8, 16, 30},
   pc : {"dial", "sleep"}, attempts : 0..MaxAttempts]

\* Every goroutine of the ConnectionManager that can take a step takes one in
\* the end: a dial returns (with either result), a sleep ends, a select with
\* a ready ctx.Done case returns.  Nothing is assumed of the reader of
\* signalPeerDisconnectChan nor of the overlay.
FairnessCM ==
  /\ WF_vars(StartSpawn)
  /\ SF_vars(ManagerExit)
  /\ WF_vars(SignalCancel)
  /\ WF_vars(\E p \in Peers : CipDialOk(p) \/ CipDialFail(p))
  /\ WF_vars(CipSleep)
  /\ \A r \in ReconnectStates :
       WF_vars(ReconnectOk(r) \/ ReconnectFail(r) \/ ReconnectSleep(r))

FairSpecCM == SpecCM /\ FairnessCM

(***************************************************************************)
(* Properties of the PeerHandler.                                          *)
(***************************************************************************)
\* C1: window coalescing.  If a window w1 and then a window w2 were sent on
\* heightRangeChan with no poll started or running between the two sends
\* (w1 is then in superseded), no poll that starts after w2 was sent, and
\* after heightRangeUpdateLoop has received everything sent, is issued with
\* w1.
C1_WindowCoalescing ==
  [][(phlPc = "select" /\ phlPc' = "rpc" /\ heightRangeChan = <<>>)
       => heightRange \notin superseded]_vars

\* C2: latest value wins.  The one window heightRangeUpdateLoop holds is the
\* last it received; when it holds none, the last it received has been
\* delivered; every delivery was of the last window received at that time;
\* the deliveries are strictly increasing, so none happens twice and a
\* superseded window is never delivered.
C2_LatestValueWins ==
  /\ hasValue => value = LastReceived
  /\ (~hasValue /\ LastReceived > 0) =>
        (delivered /= <<>> /\ delivered[Len(delivered)].w = LastReceived)
  /\ \A k \in 1..Len(delivered) : delivered[k].w = delivered[k].latest
  /\ \A j, k \in 1..Len(delivered) : j < k => delivered[j].w < delivered[k].w

\* window 1 was superseded before its delivery and window 2 was delivered
C2_Witness ==
  /\ nSent = 2
  /\ delivered = <<[w |-> 2, latest |-> 2]>>
  /\ ~hasValue

\* the topologies of the PeerHasBlock messages sent so far
EmittedTopologies == [k \in 1..Len(emitted) |-> emitted[k].Topology]

\* C6: topology emission.  Every PeerHasBlock carries the handler's peer id;
\* until the context is cancelled, what was emitted, followed by what the
\* running cycle has still to emit, is exactly the concatenation of the
\* answers of the successful polls, in order (a failed poll adds nothing);
\* after a cancellation no more is emitted than was answered.
C6_TopologyEmission ==
  /\ \A k \in 1..Len(emitted) : emitted[k].PeerID = peerID
  /\ ~ctxDone => EmittedTopologies \o toEmit = expected
  /\ Len(emitted) + Len(toEmit) <= Len(expected)

\* one poll failed, the other answered two topologies, both were emitted
C6_Witness ==
  /\ ~ctxDone
  /\ nPolls = 2
  /\ nPollErr = 1
  /\ phlPc = "select"
  /\ EmittedTopologies = <<1, 2>>

\* C3: download service.  A request has at most one response; a response is
\* for a request the handler received, and carries that request's topology
\* and the handler's own peer id; a worker ends without having sent its
\* response only if the context is cancelled; no request, no response.
C3_DownloadService ==
  \A i \in ReqIds :
    /\ respCount[i] <= 1
    /\ respCount[i] >= 1 =>
         /\ wpc[i] = "done"
         /\ wresp[i].id = wreq[i].id
         /\ wresp[i].Topology = wreq[i].Topology
         /\ wresp[i].PeerID = peerID
    /\ (wpc[i] = "done" /\ respCount[i] = 0) => ctxDone
    /\ wpc[i] = "none" => respCount[i] = 0

\* a request naming another peer was answered, with no cancellation
C3_Witness ==
  /\ ~ctxDone
  /\ \E i \in ReqIds : respCount[i] = 1 /\ wreq[i].PeerID = "p2"

\* polls whose RPC failed and whose doPeerCycle has returned
PollErrorsHandled == nPollErr - (IF phlPc = "sendErr" THEN 1 ELSE 0)
\* downloads whose RPC failed and whose goroutine has ended
DownloadErrorsHandled == Cardinality({i \in ReqIds : wout[i] = "err" /\ wpc[i] = "done"})

\* C4 as claimed: until the context is cancelled, every failed RPC that the
\* handler has finished with, poll or download, has put a PeerError on
\* errChan.
C4_AnyRPCErrorEmitsPeerError ==
  ~ctxDone => Len(errs) >= PollErrorsHandled + DownloadErrorsHandled

\* C4 as amended: every PeerError carries the handler's peer id; until the
\* context is cancelled there is exactly one PeerError per failed poll (sent,
\* or being sent); the handler sends none for anything else; a failed
\* download is reported in the Err field of its BlockDownloadResponse.
C4_PollErrorEmitsPeerError ==
  /\ \A k \in 1..Len(errs) : errs[k].PeerID = peerID
  /\ ~ctxDone => Len(errs) = PollErrorsHandled
  /\ Len(errs) <= PollErrorsHandled
  /\ \A i \in ReqIds : wout[i] = "err" => wresp[i].Err = "rpc"

\* a poll failed and its PeerError was sent; a download failed and its
\* response was sent; no cancellation
C4_Witness ==
  /\ ~ctxDone
  /\ nPollErr >= 1
  /\ Len(errs) = nPollErr
  /\ \E i \in ReqIds : wout[i] = "err" /\ respCount[i] = 1

\* GetBlocksByID calls not yet answered
InFlight == Cardinality({i \in ReqIds : wpc[i] = "rpc"})

\* C7: bounded download concurrency.  The handler keeps the number of
\* GetBlocksByID calls in flight below the number of requests it is sent:
\* some request waits for an earlier call to end.
C7_BoundedDownloadConcurrency == InFlight < MaxRequests

\* C5: the handler never stops on an error.  peerHandlerLoop has returned
\* only if the context is cancelled; whenever it is back in its select, after
\* failed polls and failed downloads too, the poll timer is armed again, and
\* a window offered by heightRangeUpdateLoop or a request waiting on
\* downloadRequestChan can be received.
C5_HandlerKeepsRunning ==
  /\ phlPc = "done" => ctxDone
  /\ phlPc = "select" => nextPollTime = "armed"
  /\ (phlPc = "select" /\ hasValue /\ urlPc = "run") => ENABLED PHLRecvWindow
  /\ (phlPc = "select" /\ downloadRequestChan /= <<>>) => ENABLED PHLRecvRequest

\* every poll has failed, a download has failed, and the loop is in its
\* select with a window and a request to receive
C5_Witness ==
  /\ ~ctxDone
  /\ nPollErr = MaxPolls
  /\ Len(errs) = MaxPolls
  /\ \E i \in ReqIds : wout[i] = "err"
  /\ phlPc = "select"
  /\ hasValue
  /\ downloadRequestChan /= <<>>

\* every goroutine of the handler has returned
Quiescent ==
  /\ phlPc = "done"
  /\ urlPc = "done"
  /\ \A i \in ReqIds : wpc[i] \in {"none", "done"}

\* C10: handler quiescence.  Once the context is cancelled, peerHandlerLoop,
\* heightRangeUpdateLoop and every download worker return in the end, with
\* nothing assumed of the readers of the output channels.
C10_HandlerQuiescence == ctxDone ~> Quiescent

\* cancelled with the loop blocked in a PeerHasBlock send and two workers
\* alive, one in its call and one blocked in its response send
C10_Witness ==
  /\ ctxDone
  /\ phlPc = "emit"
  /\ \E i, j \in ReqIds : wpc[i] = "rpc" /\ wpc[j] = "send"

(***************************************************************************)
(* Properties of the ConnectionManager.                                    *)
(***************************************************************************)
\* handleDisconnected's pid while it is in its select
PendingSignal == IF mgrPc = "signal" THEN <<dpid>> ELSE <<>>

\* C8: disconnect handling.  While handleDisconnected is in the select that
\* sends pid on signalPeerDisconnectChan, pid has no entry in connectedPeers
\* and the PeerConnection it had is cancelled; until the root context is
\* cancelled the notifications sent, and the one being sent, are exactly the
\* Disconnected events handled, in order; there is never a notification
\* more.
C8_DisconnectHandling ==
  /\ mgrPc = "signal" =>
       /\ connectedPeers[dpid] = 0
       /\ dinst /= 0 => (pcs[dinst].peer = dpid /\ pcs[dinst].cancelled)
  /\ ~rootDone => signalled \o PendingSignal = processed
  /\ Len(signalled) + Len(PendingSignal) <= Len(processed)

\* a first disconnect was signalled, and the disconnect of a registered peer
\* is about to be
C8_Witness ==
  /\ ~rootDone
  /\ Len(signalled) = 1
  /\ mgrPc = "signal"
  /\ dinst /= 0

\* C9: cancellation isolation.  A step of handleDisconnected for p leaves the
\* entry of every other peer q as it was, and the PeerConnection of q and the
\* state of its context as they were.
C9_CancellationIsolation ==
  [][\A p \in Peers :
       (mgrPc = "select" /\ mgrPc' = "signal" /\ dpid' = p) =>
          \A q \in Peers \ {p} :
            /\ connectedPeers'[q] = connectedPeers[q]
            /\ connectedPeers[q] /= 0 =>
                 /\ pcs'[connectedPeers[q]] = pcs[connectedPeers[q]]
                 /\ PeerCtxDone(connectedPeers[q])' = PeerCtxDone(connectedPeers[q])]_vars

\* the disconnect of a registered peer has been handled while another peer
\* is registered, and that peer's context is live
C9_Witness ==
  /\ mgrPc = "signal"
  /\ dinst /= 0
  /\ \E q \in Peers \ {dpid} :
       connectedPeers[q] /= 0 /\ ~PeerCtxDone(connectedPeers[q])

\* every goroutine the ConnectionManager started has returned and every
\* PeerConnection's context is done
CMQuiescent ==
  /\ mgrPc = "done"
  /\ cipPc = "done"
  /\ reconn = EmptyBag
  /\ \A k \in 1..Len(pcs) : PeerCtxDone(k)

\* C11: shutdown.  Once Start's goroutine has started managerLoop and
\* connectInitialPeers and the root context is cancelled, managerLoop,
\* connectInitialPeers and every reconnect goroutine return in the end, and
\* every PeerConnection's context is done, whether or not the peers dialled
\* can be reached.
C11_Shutdown == (rootDone /\ startPc = "done") ~> CMQuiescent

\* the delay the claim gives for the sleep after the n-th failed attempt
Backoff(n) == min(30, 2 ^ (n - 1))

\* C18: retry backoff.  Whenever connectInitialPeers or a reconnect goroutine
\* is in its n-th sleep, the delay is min(30, 2^(n-1)) seconds: 1 at first,
\* doubling, 30 from the sixth on; so it never decreases nor exceeds 30.
C18_RetryBackoff ==
  /\ cipPc = "sleep" => sleepTimeSeconds = Backoff(cipAttempts)
  /\ \A r \in BagToSet(reconn) :
       /\ r.pc = "sleep" => r.sleepTimeSeconds = Backoff(r.attempts)
       /\ r.sleepTimeSeconds \in 1..30
  /\ sleepTimeSeconds \in 1..30

\* both loops have failed often enough to sleep the capped 30 seconds
C18_Witness ==
  /\ cipPc = "sleep"
  /\ cipAttempts >= 7
  /\ sleepTimeSeconds = 30
  /\ \E r \in BagToSet(reconn) :
       r.pc = "sleep" /\ r.attempts = 6 /\ r.sleepTimeSeconds = 30

\* C20: Start liveness.  Start's goroutine is never blocked for good in its
\* send on peerConnectedChan, however many peers the host was connected to
\* when Start was called.
C20_StartNeverBlocks == startPc /= "blocked"

\* C19: not-found downloads are errors.  A response built from a failed
\* call, from an empty reply list or from a reply whose entry is empty carries
\* an error; a response with a block and no error was built from a reply with
\* the block's bytes.
C19_NotFoundIsError ==
  \A i \in ReqIds :
    wpc[i] \in {"send", "done"} =>
      /\ wout[i] \in {"err", "zero", "emptyitem"} => wresp[i].Err /= "none"
      /\ (wresp[i].Err = "none" /\ wresp[i].Block /= "none") => wout[i] = "block"

(***************************************************************************)
(* Properties of the gossip options and the GossipToggle.                  *)
(***************************************************************************)
\* neither override flag is set
OverridesOff == ~gt.opts.AlwaysEnable /\ ~gt.opts.AlwaysDisable

\* the fraction ahead / total is strictly between 0.33 and 0.66
StrictlyBetween(ahead, total) ==
  /\ total > 0
  /\ 33 * total < ahead * 100
  /\ ahead * 100 < 66 * total

\* C16: hysteresis stability.  With both override flags off, a step that
\* brings a fraction strictly between 0.33 and 0.66 leaves the enabled state
\* as it was, whether that state is enabled or disabled.
C16_HysteresisStability ==
  [][(OverridesOff /\ StrictlyBetween(gt'.ahead, gt'.total))
       => gt'.enabled = gt.enabled]_vars

\* the toggle was enabled by a high fraction and has stayed enabled under a
\* fraction between the thresholds, with the debounce interval elapsed
C16_Witness ==
  /\ OverridesOff
  /\ gt.enabled
  /\ StrictlyBetween(gt.ahead, gt.total)
  /\ gt.sinceToggle >= MinToggleTicks

\* C17: the override flags are mutually exclusive.  Whatever options the
\* node is started with, AlwaysEnable and AlwaysDisable are never both true.
C17_OverridesExclusive == ~(gt.opts.AlwaysEnable /\ gt.opts.AlwaysDisable)

\* C12: disconnect sweep.  Once the scheduler has processed the disconnect of
\* peer p, no inventory entry has p in known_on and no entry is Downloading
\* from p, also when messages of p were queued or are emitted while p's
\* handler is being cancelled.
C12_DisconnectSweep ==
  \A p \in dm.swept : \A b \in BlockIds :
    /\ p \notin dm.inventory[b].known_on
    /\ ~(dm.inventory[b].state = "Downloading" /\ dm.inventory[b].peer = p)

\* the BlockDownloadRequests for b the scheduler has issued that have neither
\* been answered (or abandoned) by their handler nor timed out
RECURSIVE SeqToSet(_)
SeqToSet(q) == IF q = <<>> THEN {} ELSE {Head(q)} \cup SeqToSet(Tail(q))
OutstandingRequests(b) ==
  {r \in SeqToSet(dm.toSend) \cup dm.workers
            \cup UNION {SeqToSet(dm.downloadRequestChan[p]) : p \in Peers} :
     r.b = b /\ r.id \notin dm.timedOut}

\* C13: at most one download.  Each block id is being downloaded from at most
\* one peer: no second BlockDownloadRequest for it is issued while an earlier
\* one has neither been answered nor timed out.
C13_AtMostOneDownload ==
  \A b \in BlockIds : Cardinality(OutstandingRequests(b)) <= 1

\* C14: no peer overload.  Every peer's in-flight counter is between 0 and
\* max_concurrent_downloads_per_peer, and the counters of all peers sum to at
\* most max_concurrent_downloads_total.
C14_NoPeerOverload ==
  /\ \A p \in Peers : /\ 0 <= dm.inflight[p]
                       /\ dm.inflight[p] <= max_concurrent_downloads_per_peer
  /\ dm.inflight["p1"] + dm.inflight["p2"] <= max_concurrent_downloads_total

(***************************************************************************)
(* Properties of the SyncManager.                                          *)
(***************************************************************************)
AppliedSet == {sm.applied[i] : i \in 1..Len(sm.applied)}

\* every applied block follows its parent: its previous id is the head the
\* chain started from or a block applied before it, one height below
AppliedInOrder ==
  \A i \in 1..Len(sm.applied) :
    LET b == sm.applied[i] IN
      \/ Previous(b) = 0 /\ Height(b) = 1
      \/ \E j \in 1..(i - 1) : /\ sm.applied[j] = Previous(b)
                               /\ Height(b) = Height(sm.applied[j]) + 1

\* a step that passes a block to apply_block passes one whose parent is the
\* local head or already applied
CallsOnKnownParent ==
  (sm.applying = 0 /\ sm'.applying /= 0) =>
     \/ Previous(sm'.applying) = sm.local_head
     \/ Previous(sm'.applying) \in AppliedSet

OneLivePeerConnection ==
  /\ \A p \in Peers : connectedPeers[p] /= 0 =>
       /\ connectedPeers[p] \in 1..Len(pcs)
       /\ pcs[connectedPeers[p]].peer = p
       /\ ~pcs[connectedPeers[p]].cancelled
  /\ \A k1, k2 \in 1..Len(pcs) :
       (pcs[k1].peer = pcs[k2].peer /\ ~pcs[k1].cancelled /\ ~pcs[k2].cancelled)
          => k1 = k2

\* a step that handles a Connected event (it takes the event from
\* peerConnectedChan) for a peer with an entry creates no PeerConnection and
\* leaves the entries and the contexts as they were
ConnectedAgainChangesNothing ==
  \A p \in Peers :
    (pendConn'[p] < pendConn[p] /\ connectedPeers[p] /= 0) =>
       /\ pcs' = pcs
       /\ connectedPeers' = connectedPeers

\* C21: at most one live PeerConnection per peer id.  A Connected event for
\* a peer already in connectedPeers creates and starts no second
\* PeerConnection and leaves the existing entry and its context untouched;
\* every entry has a started PeerConnection the manager has not cancelled.
C21_OneLivePeerConnection ==
  []OneLivePeerConnection /\ [][ConnectedAgainChangesNothing]_vars

\* two connections to one peer are open, both Connected events have been
\* handled, and the peer has its one PeerConnection
C21_Witness ==
  \E p \in Peers :
    /\ startPc = "done"
    /\ netConns[p] = 2
    /\ pendConn[p] = 0
    /\ connectedPeers[p] /= 0
    /\ Cardinality({k \in 1..Len(pcs) : pcs[k].peer = p}) = 1

\* every Connected and Disconnected event has been handled and managerLoop
\* is back in its select
EventsProcessed ==
  /\ startPc = "done"
  /\ mgrPc = "select"
  /\ \A p \in Peers : pendConn[p] = 0 /\ pendDisc[p] = 0

\* C22: a peer stays registered while it is connected.  Once all pending
\* events are processed, p has an entry in connectedPeers, with a
\* PeerConnection that is not cancelled, if and only if a connection to p is
\* still open; so closing one of two connections to p does not tear p down.
C22_RegisteredWhileConnected ==
  EventsProcessed =>
    \A p \in Peers :
      (netConns[p] > 0) <=>
         (connectedPeers[p] /= 0 /\ ~pcs[connectedPeers[p]].cancelled)

\* C23: a slow handler never blocks the window broadcaster.  While the
\* context is live, heightRangeUpdateLoop is ready to receive a window that
\* waits on heightRangeChan, wherever peerHandlerLoop is: in its select, in
\* a poll RPC, or sending PeerHasBlock or a PeerError.
C23_WindowReceiveReady ==
  (~ctxDone /\ heightRangeChan /= <<>>) => ENABLED URLRecv

\* a window waits on heightRangeChan while heightRangeUpdateLoop holds an
\* undelivered one and peerHandlerLoop is sending PeerHasBlock messages
C23_Witness ==
  /\ ~ctxDone
  /\ heightRangeChan /= <<>>
  /\ hasValue
  /\ phlPc = "emit"
  /\ toEmit /= <<>>

\* p's handler is blocked sending PeerHasBlock on the full fan-in channel,
\* and the scheduler, the consumer of that channel, is blocked sending a
\* BlockDownloadRequest to p's handler, whose channel is full
CircularWait(p) ==
  /\ dm.loop[p] = "run"
  /\ dm.cycle[p] = "emit"
  /\ Len(dm.peerHasBlockChan) = PeerHasBlockCap
  /\ dm.toSend /= <<>>
  /\ Head(dm.toSend).p = p
  /\ Len(dm.downloadRequestChan[p]) = DownloadRequestCap

\* C24: no circular wait between a handler and the scheduler.  With no
\* cancellation, no handler is ever blocked sending PeerHasBlock on the full
\* fan-in channel while the scheduler is blocked sending a
\* BlockDownloadRequest to that handler.
C24_NoCircularWait ==
  (\A q \in Peers : dm.ctx[q] = "live") => \A p \in Peers : ~CircularWait(p)

\* a step of connectInitialPeers' inner loop that dials p (p leaves the
\* peers the round has still to dial) dials a peer of peersToConnect
DialsOnlyPeersToConnect ==
  \A p \in Peers :
    (cipPc = "round" /\ p \in cipTodo /\ p \notin cipTodo') => p \in peersToConnect

\* connectInitialPeers is in a round only while a peer is left to connect,
\* and has returned at once when there are no initial peers
RoundsOnlyWhileNeeded ==
  /\ cipPc = "round" => peersToConnect /= {}
  /\ (initialPeers = {} /\ startPc = "done") => cipPc = "done"

\* C25: connectInitialPeers dials only peers that still need connecting.  In
\* each round it dials only initial peers not connected successfully in an
\* earlier round, and it runs no round once every initial peer has been
\* connected (none at all when there are no initial peers).
C25_DialsOnlyNeeded ==
  []RoundsOnlyWhileNeeded /\ [][DialsOnlyPeersToConnect]_vars

\* C26: channel wiring.  Every PeerConnection handleConnected creates holds
\* the peerErrorChan and the gossipVoteChan that were passed to
\* NewConnectionManager; neither is nil.
C26_ChannelWiring ==
  \A k \in 1..Len(pcs) :
    /\ pcs[k].peerErrorChan = ChanArgs.peerErrorChan
    /\ pcs[k].gossipVoteChan = ChanArgs.gossipVoteChan

====
